---- MODULE Spec2Model ----
(***************************************************************************)
(* A model of the order-matching engine of src/trading/exchgs.py: one      *)
(* `market` (two order books, last price, transaction count) driven by     *)
(* buy / sell / close calls and by a consumer that pulls Trades, one at a  *)
(* time, from the generator returned by market.execute.                    *)
(*                                                                         *)
(* Prices, times and amounts are small integers.  A market-price order     *)
(* carries the price None, for which a number outside every price range    *)
(* stands; misc.inf is a number above every price.                         *)
(*                                                                         *)
(* Beside it, the ack alarm of src/alarm.py: its sequence number, severity *)
(* and unacked pair, driven by ack calls, severity changes and a consumer  *)
(* that pulls transitions from the generator returned by ack.compute.      *)
(***************************************************************************)
EXTENDS Integers, Sequences, FiniteSets, TLC

\* ---------------------------------------------------------------- bounds

\* Under Spec, orders are accepted while resting orders + matches made stay
\* below MaxOrders; under SpecBook (orders of one unit), below MaxDepth.
\* Under SpecFill (orders of one or two units, one timestamp), below MaxFill.
MaxOrders == 2
MaxDepth == 4
\* Under SpecExchange (orders of one unit, one timestamp, two securities), an
\* exchange accepts orders while those resting in all its markets plus the
\* matches made stay within MaxListed.
MaxFill == 3
MaxListed == 4
\* Under SpecAlarm, compute is called while the sequence number of the alarm
\* is below MaxSequence.
MaxSequence == 3

Agents == {"A", "B"}
LimitPrices == {1, 2}
Times == {1, 2}
\* Order sizes: 0 is accepted by buy and sell like any other size.
Amounts == {0, 1, 2}
UnitAmounts == {1}

\* ------------------------------------------------------------- src/misc.py

\* misc.inf: above every limit price (and -inf below every one).
inf == 1000

\* Python's None (or NaN) as a price: the market-price marker.
None == 2000

Prices == LimitPrices \cup {None}

non_value(number) == number = None

nan_first(number) == IF non_value(number) THEN -inf ELSE number

nan_last(number) == IF non_value(number) THEN inf ELSE number

\* ---------------------------------------------------- src/trading/exchgs.py

\* The namedtuple Trade: an order in a book, or a Trade yielded by execute.
trade(security, price, time, amount, agent) ==
    [security |-> security, price |-> price, time |-> time,
     amount |-> amount, agent |-> agent]

sell_book_key(order) == <<nan_first(order.price), -order.time>>

\* buy_book_key with market orders keyed below every price instead of above.
buy_book_key_first(order) == <<nan_first(order.price), order.time>>

buy_book_key(order) == <<nan_last(order.price), order.time>>

\* Python's comparison of two 2-tuples, k1 <= k2.
tuple_le(k1, k2) == k1[1] < k2[1] \/ (k1[1] = k2[1] /\ k1[2] <= k2[2])

\* list.sort( key=... ) computes every element's key once, then sorts the
\* (key, element) pairs by key alone, and is stable: a pair goes after every
\* pair already placed whose key is <= its own.
RECURSIVE insert_stable(_, _)
insert_stable(placed, pair) ==
    IF placed = <<>> THEN <<pair>>
    ELSE IF tuple_le(placed[Len(placed)][1], pair[1])
         THEN Append(placed, pair)
         ELSE Append(insert_stable(SubSeq(placed, 1, Len(placed) - 1), pair),
                     placed[Len(placed)])

RECURSIVE sort_pairs(_)
sort_pairs(pairs) ==
    IF pairs = <<>> THEN <<>>
    ELSE insert_stable(sort_pairs(SubSeq(pairs, 1, Len(pairs) - 1)),
                       pairs[Len(pairs)])

\* list.sort, given the list and the key of each of its elements.
sort(list, keys) ==
    LET pairs == [i \in 1 .. Len(list) |-> <<keys[i], list[i]>>]
        done == sort_pairs(pairs)
    IN  [i \in 1 .. Len(list) |-> done[i][2]]

reversed(list) == [i \in 1 .. Len(list) |-> list[Len(list) + 1 - i]]

\* market.__init__ (self.now is set and never read again; it is left out).
market(name) ==
    [name |-> name, buying |-> <<>>, selling |-> <<>>,
     lastprice |-> 0, transaction |-> 0]

\* open that looks in the buying book only.
open_buying(m, agent) == SelectSeq(m.buying, LAMBDA order : order.agent = agent)

open(m, agent) == SelectSeq(m.buying \o m.selling, LAMBDA order : order.agent = agent)

\* close whose second comprehension tests "is agent": only the agent's own
\* orders stay in the sell book.
close_keep_own(m, agent) ==
    [m EXCEPT !.buying = SelectSeq(m.buying, LAMBDA order : order.agent # agent),
              !.selling = SelectSeq(m.selling, LAMBDA order : order.agent = agent)]

\* close that clears the agent's orders from the buy book only.
close_buying(m, agent) ==
    [m EXCEPT !.buying = SelectSeq(m.buying, LAMBDA order : order.agent # agent)]

close(m, agent) ==
    [m EXCEPT !.buying = SelectSeq(m.buying, LAMBDA order : order.agent # agent),
              !.selling = SelectSeq(m.selling, LAMBDA order : order.agent # agent)]

\* enter that closes the owner's orders whatever update says.
enter_replacing(m, order, update) ==
    LET c == close(m, order.agent)
        b == Append(c.buying, order)
        s == Append(c.selling, order)
    IN  IF order.amount >= 0
        THEN [c EXCEPT !.buying =
                sort(b, [i \in 1 .. Len(b) |-> buy_book_key(b[i])])]
        ELSE [c EXCEPT !.selling =
                sort(s, [i \in 1 .. Len(s) |-> sell_book_key(s[i])])]

\* An entry that closes nothing, whatever update is.
enter_keeping(m, order, update) ==
    LET b == Append(m.buying, order)
        s == Append(m.selling, order)
    IN  IF order.amount >= 0
        THEN [m EXCEPT !.buying =
                sort(b, [i \in 1 .. Len(b) |-> buy_book_key(b[i])])]
        ELSE [m EXCEPT !.selling =
                sort(s, [i \in 1 .. Len(s) |-> sell_book_key(s[i])])]

enter(m, order, update) ==
    LET c == IF update THEN close(m, order.agent) ELSE m
        b == Append(c.buying, order)
        s == Append(c.selling, order)
    IN  IF order.amount >= 0
        THEN [c EXCEPT !.buying =
                sort(b, [i \in 1 .. Len(b) |-> buy_book_key(b[i])])]
        ELSE [c EXCEPT !.selling =
                sort(s, [i \in 1 .. Len(s) |-> sell_book_key(s[i])])]

prices(bid, ask, last) == [bid |-> bid, ask |-> ask, last |-> last]

\* The loops of market.price: the price of the first order of the list that
\* has one, 0. if none has.
RECURSIVE first_price(_)
first_price(orders) ==
    IF orders = <<>> THEN 0
    ELSE IF ~non_value(Head(orders).price) THEN Head(orders).price
    ELSE first_price(Tail(orders))

\* market.price with the buying book scanned from its head.
market_price_forward(m) ==
    prices(first_price(m.buying), first_price(m.selling), m.lastprice)

\* market.price
market_price(m) ==
    prices(first_price(reversed(m.buying)), first_price(m.selling), m.lastprice)

buy(m, agent, amount, price, now, update) ==
    enter(m, trade(m.name, price, now, amount, agent), update)

sell(m, agent, amount, price, now, update) ==
    enter(m, trade(m.name, price, now, -amount, agent), update)

\* The two orders market.execute matches next: buying[-1] and selling[0].
top_buy(m) == m.buying[Len(m.buying)]

top_sell(m) == m.selling[1]

\* crossed with the two prices compared the wrong way round.
\* A loop condition that looks at no price.
crossed_always(m) == m.buying # <<>> /\ m.selling # <<>>

crossed_reversed(m) ==
    /\ m.buying # <<>>
    /\ m.selling # <<>>
    /\ \/ non_value(top_sell(m).price)
       \/ non_value(top_buy(m).price)
       \/ top_sell(m).price >= top_buy(m).price

\* The while condition of market.execute.
crossed(m) ==
    /\ m.buying # <<>>
    /\ m.selling # <<>>
    /\ \/ non_value(top_sell(m).price)
       \/ non_value(top_buy(m).price)
       \/ top_sell(m).price <= top_buy(m).price

\* The amount of a match taken as the larger of the two quantities.
match_amount_larger(m) ==
    IF top_buy(m).amount <= -top_sell(m).amount
    THEN -top_sell(m).amount ELSE top_buy(m).amount

\* The amount of a match taken from the sell order alone.
match_amount_seller(m) == -top_sell(m).amount

\* The amount of a match taken from the buy order alone.
match_amount_buyer(m) == top_buy(m).amount

match_amount(m) ==
    IF top_buy(m).amount <= -top_sell(m).amount
    THEN top_buy(m).amount ELSE -top_sell(m).amount

\* search_chain with the two books taken in the other order: the book of the
\* later order is searched first.
search_chain_swapped(m) ==
    IF top_buy(m).time < top_sell(m).time
    THEN m.selling \o reversed(m.buying)
    ELSE reversed(m.buying) \o m.selling

\* itertools.chain( reversed( self.buying ), self.selling ) when the buyer is the
\* earlier of the two, itertools.chain( self.selling, reversed( self.buying ))
\* otherwise.
search_chain(m) ==
    IF top_buy(m).time < top_sell(m).time
    THEN reversed(m.buying) \o m.selling
    ELSE m.selling \o reversed(m.buying)

\* The for loop over search: the price of the first order that has one, and
\* the price as it was when there is none.
search_price(search, price) ==
    LET found == {i \in 1 .. Len(search) : ~non_value(search[i].price)}
    IN  IF found = {} THEN price
        ELSE search[CHOOSE i \in found : \A j \in found : i <= j].price

\* match_price with the timestamps compared by <= : on equal timestamps the
\* seller's price is taken.
match_price_tie(m) ==
    LET buyer_first == top_buy(m).time <= top_sell(m).time
        first == IF buyer_first THEN top_sell(m).price ELSE top_buy(m).price
        other == IF buyer_first THEN top_buy(m).price ELSE top_sell(m).price
        price == IF non_value(first) THEN other ELSE first
    IN  IF non_value(price) THEN search_price(search_chain(m), price) ELSE price

\* match_price by the rule of the docstring of market: the order placed first
\* sets the price.
\* The price rule that lets the seller's limit set the price, whoever was first.
match_price_seller(m) ==
    LET first == top_sell(m).price
        other == top_buy(m).price
        price == IF non_value(first) THEN other ELSE first
    IN  IF non_value(price) THEN search_price(search_chain(m), price) ELSE price

match_price_older(m) ==
    LET buyer_first == top_buy(m).time < top_sell(m).time
        first == IF buyer_first THEN top_buy(m).price ELSE top_sell(m).price
        other == IF buyer_first THEN top_sell(m).price ELSE top_buy(m).price
        price == IF non_value(first) THEN other ELSE first
    IN  IF non_value(price) THEN search_price(search_chain(m), price) ELSE price

\* match_price that, when the price-setting order has no price, searches the
\* books from their far ends instead of taking the other order's price.
match_price_far(m) ==
    LET buyer_first == top_buy(m).time < top_sell(m).time
        first == IF buyer_first THEN top_sell(m).price ELSE top_buy(m).price
    IN  IF non_value(first) THEN search_price(reversed(search_chain(m)), first) ELSE first

\* The price of one pass of the loop, as it stands at the last test for a price
\* that is still None; search_set tells whether this pass assigned search.
match_price(m) ==
    LET buyer_first == top_buy(m).time < top_sell(m).time
        first == IF buyer_first THEN top_sell(m).price ELSE top_buy(m).price
        other == IF buyer_first THEN top_buy(m).price ELSE top_sell(m).price
        search_set == non_value(first)
        price == IF search_set THEN other ELSE first
    IN  IF non_value(price) THEN search_price(search_chain(m), price) ELSE price

\* search assigned only where the buyer is the earlier of the two.
search_assigned_buyer(m) ==
    top_buy(m).time < top_sell(m).time /\ non_value(top_sell(m).price)

\* Whether a pass of the loop assigns its local search: it does where the
\* price first taken is None, in either branch.
search_assigned(m) ==
    IF top_buy(m).time < top_sell(m).time
    THEN non_value(top_sell(m).price)
    ELSE non_value(top_buy(m).price)

\* The price of a pass as it stands at "if misc.non_value( price )", where the
\* search is about to be read.
price_unsearched(m) ==
    LET buyer_first == top_buy(m).time < top_sell(m).time
        first == IF buyer_first THEN top_sell(m).price ELSE top_buy(m).price
        other == IF buyer_first THEN top_buy(m).price ELSE top_sell(m).price
    IN  IF non_value(first) THEN other ELSE first

\* A pass reads search ("for order in search") without having assigned it:
\* Python raises UnboundLocalError.
search_unbound(m) == non_value(price_unsearched(m)) /\ ~search_assigned(m)

\* A pass of the loop raises: the pull neither yields nor ends the sequence.
raises(m) == crossed(m) /\ search_unbound(m)

\* match that never deletes an order: a filled order stays with what is left
\* of it, nothing.
match_residual(m, price) ==
    LET amount == match_amount(m)
        b == top_buy(m)
        s == top_sell(m)
    IN  [m EXCEPT
           !.lastprice = price,
           !.transaction = m.transaction + 1,
           !.buying[Len(m.buying)] =
               trade(b.security, b.price, b.time, b.amount - amount, b.agent),
           !.selling[1] =
               trade(s.security, s.price, s.time, s.amount + amount, s.agent)]

\* match that deletes both matched orders, whatever is left of them.
\* A match that sets the last price and leaves the transaction count alone.
match_uncounted(m, price) ==
    LET amount == match_amount(m)
        b == top_buy(m)
        s == top_sell(m)
        n == Len(m.buying)
    IN  [m EXCEPT
           !.lastprice = price,
           !.buying = IF amount = b.amount
                      THEN SubSeq(m.buying, 1, n - 1)
                      ELSE [m.buying EXCEPT ![n] =
                              trade(b.security, b.price, b.time, b.amount - amount, b.agent)],
           !.selling = IF amount = -s.amount
                       THEN SubSeq(m.selling, 2, Len(m.selling))
                       ELSE [m.selling EXCEPT ![1] =
                               trade(s.security, s.price, s.time, s.amount + amount, s.agent)]]

match_drop(m, price) ==
    [m EXCEPT !.lastprice = price,
              !.transaction = m.transaction + 1,
              !.buying = SubSeq(m.buying, 1, Len(m.buying) - 1),
              !.selling = SubSeq(m.selling, 2, Len(m.selling))]

\* The books, last price and transaction count after one match at `price`.
match(m, price) ==
    LET amount == match_amount(m)
        b == top_buy(m)
        s == top_sell(m)
        n == Len(m.buying)
    IN  [m EXCEPT
           !.lastprice = price,
           !.transaction = m.transaction + 1,
           !.buying = IF amount = b.amount
                      THEN SubSeq(m.buying, 1, n - 1)
                      ELSE [m.buying EXCEPT ![n] =
                              trade(b.security, b.price, b.time, b.amount - amount, b.agent)],
           !.selling = IF amount = -s.amount
                       THEN SubSeq(m.selling, 2, Len(m.selling))
                       ELSE [m.selling EXCEPT ![1] =
                               trade(s.security, s.price, s.time, s.amount + amount, s.agent)]]

\* can_match without the last test of the price: a pass trades although no
\* price was found.
can_match_unpriced(m) == crossed(m)

\* A pass of the loop reaches its yields: the books are crossed and a price was found.
can_match(m) == crossed(m) /\ ~non_value(match_price(m))

\* The market after a generator of execute has been pulled to exhaustion: the
\* loop makes match after match until the books no longer cross or no price
\* is found.
RECURSIVE execute(_)
execute(m) == IF can_match(m) THEN execute(match(m, match_price(m))) ELSE m

\* ---------------------------------------------------------------- exchange

Securities == {"grain", "alloy"}

\* exchange.__init__: no market yet.  markets maps the securities that have a
\* market to it.
exchange(name) == [name |-> name, markets |-> <<>>]

\* The markets dict once a new market was made for the security, whether it
\* had one or not.
with_market_fresh(x, security) ==
    [s \in DOMAIN x.markets \cup {security} |->
        IF s = security THEN market(security) ELSE x.markets[s]]

\* The markets dict once "if security not in self.markets" has run.
with_market(x, security) ==
    IF security \in DOMAIN x.markets THEN x.markets
    ELSE x.markets @@ (security :> market(security))

exchange_buy(x, security, agent, amount, price, now, update) ==
    LET markets == with_market(x, security)
    IN  [x EXCEPT !.markets =
            [markets EXCEPT ![security] = buy(@, agent, amount, price, now, update)]]

\* exchange.sell hands the order to the buy method of the market.
exchange_sell(x, security, agent, amount, price, now, update) ==
    LET markets == with_market(x, security)
    IN  [x EXCEPT !.markets =
            [markets EXCEPT ![security] = buy(@, agent, amount, price, now, update)]]

\* An entry whose update closes the agent's orders in every market.
exchange_enter_closing(x, order, update) ==
    LET markets == with_market(x, order.security)
        closed == [s \in DOMAIN markets |->
                     IF update THEN close(markets[s], order.agent) ELSE markets[s]]
    IN  [x EXCEPT !.markets =
            [closed EXCEPT ![order.security] = enter(@, order, FALSE)]]

exchange_enter(x, order, update) ==
    LET markets == with_market(x, order.security)
    IN  [x EXCEPT !.markets =
            [markets EXCEPT ![order.security] = enter(@, order, update)]]

\* The orders in which self.markets.values() can give the markets of a dict:
\* every order of its keys.
values_orders(markets) ==
    {order \in [1 .. Cardinality(DOMAIN markets) -> DOMAIN markets] :
        \A i, j \in DOMAIN order : order[i] = order[j] => i = j}

\* exchange.open, its markets taken in the given order.
RECURSIVE exchange_open(_, _, _)
exchange_open(x, agent, order) ==
    IF order = <<>> THEN <<>>
    ELSE open(x.markets[Head(order)], agent) \o exchange_open(x, agent, Tail(order))

\* exchange.price that asks a market made for the occasion when it has none.
exchange_price_made(x, security) == market_price(with_market(x, security)[security])

exchange_price(x, security) ==
    IF security \in DOMAIN x.markets
    THEN market_price(x.markets[security])
    ELSE prices(None, None, None)

\* The Trades that a generator of market.execute( now ) yields, pulled to
\* exhaustion.
RECURSIVE execute_trades(_, _)
execute_trades(m, now) ==
    IF can_match(m)
    THEN <<trade(m.name, match_price(m), now, match_amount(m), top_buy(m).agent),
           trade(m.name, match_price(m), now, -match_amount(m), top_sell(m).agent)>>
         \o execute_trades(match(m, match_price(m)), now)
    ELSE <<>>

\* Where the loops of exchange.execute find their next match: the place in
\* order of the first market, from the one being pulled on, whose execute
\* has a match to make; 0 if there is none.
next_match(markets, order, at) ==
    LET places == {j \in 1 .. Len(order) : j >= at /\ can_match(markets[order[j]])}
    IN  IF places = {} THEN 0 ELSE CHOOSE j \in places : \A k \in places : j <= k

\* ----------------------------------------------------------------- actors

\* actor( balance = balance, assets = assets ): assets is a dict of holdings,
\* keyed by security.
actor(balance, assets) == [balance |-> balance, assets |-> assets]

\* A record that takes the price times the size of the order off the balance,
\* bought or sold.
record_unsigned(a, order) ==
    LET size == IF order.amount < 0 THEN -order.amount ELSE order.amount
        had == IF order.security \in DOMAIN a.assets THEN a.assets[order.security] ELSE 0
    IN  [balance |-> a.balance - size * order.price,
         assets |-> [security \in DOMAIN a.assets \cup {order.security} |->
                        IF security = order.security THEN had + order.amount
                        ELSE a.assets[security]]]

\* a.record( order ): setdefault( order.security, 0 ), then the amount is added
\* to the holding and amount * price taken off the balance.
record(a, order) ==
    LET had == IF order.security \in DOMAIN a.assets THEN a.assets[order.security] ELSE 0
    IN  [balance |-> a.balance - order.amount * order.price,
         assets |-> [security \in DOMAIN a.assets \cup {order.security} |->
                        IF security = order.security THEN had + order.amount
                        ELSE a.assets[security]]]

\* The actors after "for order in mkt.execute(): order.agent.record( order )"
\* has forwarded the Trades given.
RECURSIVE recorded(_, _)
recorded(actors, trades) ==
    IF trades = <<>> THEN actors
    ELSE recorded([actors EXCEPT ![Head(trades).agent] = record(@, Head(trades))],
                  Tail(trades))

\* The two actors of test_market_agent: one with a balance, one with grain.
actors ==
    [agent \in Agents |->
        IF agent = "A" THEN actor(1000, <<>>) ELSE actor(0, [security \in {"grain"} |-> 100])]

\* ------------------------------------------------------------------ alarm

\* Severities the base alarm is set to, and what is passed as ack: None, or a
\* sequence number.
Severities == {0, 1, 2}
AckNumbers == (-1 .. MaxSequence + 2) \cup {None}

\* ack(): alarm.__init__ then ack.__init__ with the default threshold; unacked
\* is the pair ( sequence, severity ).
ack_alarm == [sequence |-> -1, severity |-> 0, unacked |-> <<-1, 0>>, threshold |-> 1]

acknowledged(a) == a.sequence = a.unacked[1]

\* ack.severity(): the base severity, one more while unacknowledged.
severity(a) == a.severity + (IF acknowledged(a) THEN 0 ELSE 1)

\* ack.state()
state(a) == <<IF acknowledged(a) THEN 0 ELSE 1, a.sequence>>

transition(a) == [a EXCEPT !.sequence = a.sequence + 1]

\* An ack that, when taken, counts as a transition.
ack_advancing(a, seq) ==
    IF ~acknowledged(a)
    THEN IF seq # None /\ seq > a.unacked[1]
         THEN [alarm |-> [a EXCEPT !.sequence = a.sequence + 1,
                                   !.unacked = <<a.sequence + 1, severity(a) - 1>>],
               result |-> TRUE]
         ELSE [alarm |-> a, result |-> FALSE]
    ELSE [alarm |-> a, result |-> TRUE]

\* a.ack( seq ): the alarm it leaves, and what it returns.
ack(a, seq) ==
    IF ~acknowledged(a)
    THEN IF seq # None /\ seq > a.unacked[1]
         THEN [alarm |-> [a EXCEPT !.unacked = <<a.sequence, severity(a) - 1>>],
               result |-> TRUE]
         ELSE [alarm |-> a, result |-> FALSE]
    ELSE [alarm |-> a, result |-> TRUE]

\* ack.compute run from one point of its code to its next yield or its end:
\* the alarm it leaves, its frame, and whether it stopped at a yield.  In
\* the frame, pc is "start" before the first pull, "acked" at the yield of the
\* acknowledgement, "base" at the yield of a transition of alarm.compute,
\* "unacked" at the yield of the transition to unacknowledged, "done" at the
\* end; acked and done are the locals, and base is "start" until
\* alarm.compute was pulled on, "yielded" while it is suspended at its yield.
RECURSIVE compute_loop(_, _)
RECURSIVE compute_check(_, _)

\* The end of a pass of the while loop.
compute_next(a, f) ==
    IF f.done
    THEN [alarm |-> a, gen |-> [f EXCEPT !.pc = "done"], yields |-> FALSE]
    ELSE compute_loop(a, f)

\* After each transition, and after StopIteration: update or enter unacked.
compute_check(a, f) ==
    LET sev == severity(a)
    IN  IF ~f.acked
        THEN compute_next(IF sev >= a.unacked[2]
                          THEN [a EXCEPT !.unacked = <<a.sequence - 1, sev>>]
                          ELSE a, f)
        ELSE IF sev > a.unacked[2] /\ sev >= a.threshold
        THEN [alarm |-> transition([a EXCEPT !.unacked = <<a.sequence, sev + 1>>]),
              gen |-> [f EXCEPT !.pc = "unacked"], yields |-> TRUE]
        ELSE compute_next([a EXCEPT !.unacked = <<a.sequence, sev>>], f)

\* A pass of the while loop up to its yield: transitions.next() runs
\* alarm.compute, which yields the boot transition if the sequence number is
\* negative and raises StopIteration otherwise, and when pulled on again.
compute_loop(a, f) ==
    LET acked == acknowledged(a)
    IN  IF f.base = "start" /\ a.sequence < 0
        THEN LET t == transition(a)
             IN  [alarm |-> IF acked
                            THEN [t EXCEPT !.unacked = <<t.sequence, t.unacked[2]>>]
                            ELSE t,
                  gen |-> [f EXCEPT !.pc = "base", !.acked = acked, !.base = "yielded"],
                  yields |-> TRUE]
        ELSE compute_check(a, [f EXCEPT !.acked = acked, !.base = "done",
                                        !.done = TRUE])

\* An acknowledgement that is taken whatever the number given.
compute_start_any(a, f) ==
    IF ~acknowledged(a) /\ f.arg # None
    THEN LET t == transition([a EXCEPT !.unacked = <<a.sequence, severity(a) - 1>>])
         IN  [alarm |-> ack(t, t.sequence).alarm,
              gen |-> [f EXCEPT !.pc = "acked"], yields |-> TRUE]
    ELSE compute_loop(a, f)

\* The code before the loop: see if we've been acked.
compute_start(a, f) ==
    IF ~acknowledged(a) /\ ack(a, f.arg).result
    THEN LET t == transition(ack(a, f.arg).alarm)
         IN  [alarm |-> ack(t, t.sequence).alarm,
              gen |-> [f EXCEPT !.pc = "acked"], yields |-> TRUE]
    ELSE compute_loop(a, f)

\* A pull on the generator.
resume(a, f) ==
    IF f.pc = "start" THEN compute_start(a, f)
    ELSE IF f.pc = "acked" THEN compute_loop(a, f)
    ELSE IF f.pc = "base" THEN compute_check(a, f)
    ELSE compute_next(a, f)

\* ------------------------------------------------------------------ state

VARIABLES
    mkt,        \* the market object
    gen,        \* the generator that mkt.execute( now ) returned, if one is live
    yielded,    \* the Trades pulled from that generator so far
    xchg,       \* an exchange object: its markets dict, keyed by security
    xgen,       \* the generator that xchg.execute( now ) returned, if one is live
    xyielded,   \* the Trades pulled from that generator so far
    returned,   \* what the latest call of a method of xchg returned
    alm,        \* an ack alarm object
    agen,       \* the generator that alm.compute( ack ) returned, if one is live
    ayielded    \* the state() of alm at each transition pulled from it so far

vars == <<mkt, gen, yielded, xchg, xgen, xyielded, returned, alm, agen, ayielded>>

\* The market object and its generator; the exchange object and its.
mvars == <<mkt, gen, yielded>>

xvars == <<xchg, xgen, xyielded, returned>>

\* The alarm object and its generator.
avars == <<alm, agen, ayielded>>

no_order == trade("", None, 0, 0, "")

\* No live generator.  pc is "start" before the first pull, "buyer" while
\* suspended at the first yield, "seller" while suspended at the second and
\* "done" once the loop has ended (the pull raised StopIteration).
\* now, price, amount and seller are the locals the second yield reads; bought
\* and sold record the two orders that were at the top of the books when the
\* match was made, and before the market as it was when execute was called.
no_gen ==
    [pc |-> "none", now |-> 0, price |-> None, amount |-> 0, seller |-> "",
     bought |-> no_order, sold |-> no_order, before |-> market("")]

\* No live generator of exchange.execute.  order is the order in which
\* self.markets.values() gives the markets, at the place in it of the market
\* whose execute is being pulled (0 before the first); price, amount and
\* seller are the locals of that market's generator, and before the markets as
\* they were when exchange.execute was called.
no_xgen ==
    [pc |-> "none", now |-> 0, order |-> <<>>, at |-> 0,
     price |-> None, amount |-> 0, seller |-> "", before |-> <<>>]

\* buy, sell, enter and execute return nothing the caller looks at.
no_return == [call |-> "", security |-> "", value |-> None]

\* No live generator of compute; before is the alarm as it was at the call.
no_agen ==
    [pc |-> "none", arg |-> None, acked |-> FALSE, done |-> FALSE,
     base |-> "start", before |-> ack_alarm]

Init ==
    /\ mkt = market("grain")
    /\ gen = no_gen
    /\ yielded = <<>>
    /\ xchg = exchange("exchange")
    /\ xgen = no_xgen
    /\ xyielded = <<>>
    /\ returned = no_return
    /\ alm = ack_alarm
    /\ agen = no_agen
    /\ ayielded = <<>>

Buy(agent, amount, price, now, update) ==
    /\ mkt' = buy(mkt, agent, amount, price, now, update)
    /\ UNCHANGED <<gen, yielded, xvars, avars>>

Sell(agent, amount, price, now, update) ==
    /\ mkt' = sell(mkt, agent, amount, price, now, update)
    /\ UNCHANGED <<gen, yielded, xvars, avars>>

Close(agent) ==
    /\ mkt' = close(mkt, agent)
    /\ UNCHANGED <<gen, yielded, xvars, avars>>

\* mkt.execute( now ): a generator is made; none of its code has run yet.
Execute(now) ==
    /\ gen.pc = "none"
    /\ gen' = [no_gen EXCEPT !.pc = "start", !.now = now, !.before = mkt]
    /\ yielded' = <<>>
    /\ UNCHANGED <<mkt, xvars, avars>>

\* A pass that takes both top orders off the books and would put back what is
\* left of them when it is resumed.
PullBuyer_popped ==
    /\ gen.pc \in {"start", "seller"}
    /\ ~raises(mkt)
    /\ can_match(mkt)
    /\ LET price == match_price(mkt)
           amount == match_amount(mkt)
       IN  /\ mkt' = match_drop(mkt, price)
           /\ gen' = [gen EXCEPT !.pc = "buyer", !.price = price, !.amount = amount,
                                 !.seller = top_sell(mkt).agent,
                                 !.bought = top_buy(mkt), !.sold = top_sell(mkt)]
           /\ yielded' = Append(yielded,
                                trade(mkt.name, price, gen.now, amount, top_buy(mkt).agent))
           /\ UNCHANGED <<xvars, avars>>

\* A pass that prices the match at the limit of either of the two top orders.
PullBuyer_either ==
    /\ gen.pc \in {"start", "seller"}
    /\ ~raises(mkt)
    /\ can_match(mkt)
    /\ \E price \in ({top_buy(mkt).price, top_sell(mkt).price} \cap LimitPrices)
                    \cup {match_price(mkt)} :
        LET amount == match_amount(mkt)
        IN  /\ mkt' = match(mkt, price)
            /\ gen' = [gen EXCEPT !.pc = "buyer", !.price = price, !.amount = amount,
                                  !.seller = top_sell(mkt).agent,
                                  !.bought = top_buy(mkt), !.sold = top_sell(mkt)]
            /\ yielded' = Append(yielded,
                                 trade(mkt.name, price, gen.now, amount, top_buy(mkt).agent))
            /\ UNCHANGED <<xvars, avars>>

\* A pull that runs one pass of the loop up to the first yield.
PullBuyer ==
    /\ gen.pc \in {"start", "seller"}
    /\ ~raises(mkt)
    /\ can_match(mkt)
    /\ LET price == match_price(mkt)
           amount == match_amount(mkt)
       IN  /\ mkt' = match(mkt, price)
           /\ gen' = [gen EXCEPT !.pc = "buyer", !.price = price, !.amount = amount,
                                 !.seller = top_sell(mkt).agent,
                                 !.bought = top_buy(mkt), !.sold = top_sell(mkt)]
           /\ yielded' = Append(yielded,
                                trade(mkt.name, price, gen.now, amount, top_buy(mkt).agent))
           /\ UNCHANGED <<xvars, avars>>

\* A second yield that names the buyer again.
PullSeller_buyer ==
    /\ gen.pc = "buyer"
    /\ gen' = [gen EXCEPT !.pc = "seller"]
    /\ yielded' = Append(yielded,
                         trade(mkt.name, gen.price, gen.now, -gen.amount,
                               gen.bought.agent))
    /\ UNCHANGED <<mkt, xvars, avars>>

\* A second yield that reads the seller off the selling book as it is when the
\* generator is resumed.
PullSeller_reread ==
    /\ gen.pc = "buyer"
    /\ gen' = [gen EXCEPT !.pc = "seller"]
    /\ yielded' = Append(yielded,
                         trade(mkt.name, gen.price, gen.now, -gen.amount,
                               IF mkt.selling = <<>> THEN gen.seller
                               ELSE top_sell(mkt).agent))
    /\ UNCHANGED <<mkt, xvars, avars>>

\* A pull that resumes after the first yield and stops at the second.
PullSeller ==
    /\ gen.pc = "buyer"
    /\ gen' = [gen EXCEPT !.pc = "seller"]
    /\ yielded' = Append(yielded,
                         trade(mkt.name, gen.price, gen.now, -gen.amount, gen.seller))
    /\ UNCHANGED <<mkt, xvars, avars>>

\* A pull that ends the generator whether or not a match is left to make.
PullStop_early ==
    /\ gen.pc \in {"start", "seller"}
    /\ ~raises(mkt)
    /\ gen' = [gen EXCEPT !.pc = "done"]
    /\ UNCHANGED <<mkt, yielded, xvars, avars>>

\* A pull that finds the loop over: the generator is exhausted.
PullStop ==
    /\ gen.pc \in {"start", "seller"}
    /\ ~raises(mkt)
    /\ ~can_match(mkt)
    /\ gen' = [gen EXCEPT !.pc = "done"]
    /\ UNCHANGED <<mkt, yielded, xvars, avars>>

\* The consumer stops pulling before the generator is exhausted, and drops it.
Abandon ==
    /\ gen.pc \in {"start", "buyer", "seller"}
    /\ gen' = no_gen
    /\ yielded' = <<>>
    /\ UNCHANGED <<mkt, xvars, avars>>

\* The consumer is through with an exhausted generator and its Trades.
Finish ==
    /\ gen.pc = "done"
    /\ gen' = no_gen
    /\ yielded' = <<>>
    /\ UNCHANGED <<mkt, xvars, avars>>

\* The driver of the simulation: it enters and closes orders between
\* executes, never while a generator is live.  An entry is accepted while the
\* orders that would rest after it, plus the matches made, stay within bound.
idle == gen.pc = "none"

room(m, bound) == Len(m.buying) + Len(m.selling) + m.transaction < bound

DriverBuy(amounts, bound) ==
    \E agent \in Agents, amount \in amounts, price \in Prices, now \in Times,
       update \in BOOLEAN :
        /\ idle
        /\ room(IF update THEN close(mkt, agent) ELSE mkt, bound)
        /\ Buy(agent, amount, price, now, update)

DriverSell(amounts, bound) ==
    \E agent \in Agents, amount \in amounts, price \in Prices, now \in Times,
       update \in BOOLEAN :
        /\ idle
        /\ room(IF update THEN close(mkt, agent) ELSE mkt, bound)
        /\ Sell(agent, amount, price, now, update)

DriverClose == \E agent \in Agents : idle /\ Close(agent)

DriverExecute == \E now \in Times : Execute(now)

Next ==
    \/ DriverBuy(Amounts, MaxOrders)
    \/ DriverSell(Amounts, MaxOrders)
    \/ DriverClose
    \/ DriverExecute
    \/ PullBuyer
    \/ PullSeller
    \/ PullStop
    \/ Abandon
    \/ Finish

Spec == Init /\ [][Next]_vars

\* The same driver with orders of one unit only, and deeper books.
NextBook ==
    \/ DriverBuy(UnitAmounts, MaxDepth)
    \/ DriverSell(UnitAmounts, MaxDepth)
    \/ DriverClose
    \/ DriverExecute
    \/ PullBuyer
    \/ PullSeller
    \/ PullStop
    \/ Abandon
    \/ Finish

SpecBook == Init /\ [][NextBook]_vars

\* A driver whose orders all carry one timestamp and a quantity of one or two
\* units, so that books of some depth hold orders that fill in part.
FillAmounts == {1, 2}

FillTimes == {1}

FillBuy ==
    \E agent \in Agents, amount \in FillAmounts, price \in Prices, now \in FillTimes,
       update \in BOOLEAN :
        /\ idle
        /\ room(IF update THEN close(mkt, agent) ELSE mkt, MaxFill)
        /\ Buy(agent, amount, price, now, update)

FillSell ==
    \E agent \in Agents, amount \in FillAmounts, price \in Prices, now \in FillTimes,
       update \in BOOLEAN :
        /\ idle
        /\ room(IF update THEN close(mkt, agent) ELSE mkt, MaxFill)
        /\ Sell(agent, amount, price, now, update)

NextFill ==
    \/ FillBuy
    \/ FillSell
    \/ DriverClose
    \/ DriverExecute
    \/ PullBuyer
    \/ PullSeller
    \/ PullStop
    \/ Abandon
    \/ Finish

SpecFill == Init /\ [][NextFill]_vars

\* A market where every order is entered with update = True: the agent's open
\* orders are closed and the new one takes their place.
ReplaceBuy ==
    \E agent \in Agents, amount \in FillAmounts, price \in Prices, now \in Times :
        /\ idle
        /\ Buy(agent, amount, price, now, TRUE)
        /\ Len(mkt'.buying) + Len(mkt'.selling) + mkt'.transaction <= MaxFill

ReplaceSell ==
    \E agent \in Agents, amount \in FillAmounts, price \in Prices, now \in Times :
        /\ idle
        /\ Sell(agent, amount, price, now, TRUE)
        /\ Len(mkt'.buying) + Len(mkt'.selling) + mkt'.transaction <= MaxFill

NextReplace ==
    \/ ReplaceBuy
    \/ ReplaceSell
    \/ DriverClose
    \/ DriverExecute
    \/ PullBuyer
    \/ PullSeller
    \/ PullStop
    \/ Abandon
    \/ Finish

SpecReplace == Init /\ [][NextReplace]_vars

\* A driver that calls execute on the new market and enters and closes orders,
\* of one unit, while the generator is live: before its first pull and
\* between two pulls.  Orders are accepted while those resting and the matches
\* made stay within MaxFill.
suspended == gen.pc \in {"start", "buyer", "seller"}

InterBuy ==
    \E agent \in Agents, amount \in UnitAmounts, price \in Prices, now \in FillTimes,
       update \in BOOLEAN :
        /\ suspended
        /\ Buy(agent, amount, price, now, update)
        /\ Len(mkt'.buying) + Len(mkt'.selling) + mkt'.transaction <= MaxFill

InterSell ==
    \E agent \in Agents, amount \in UnitAmounts, price \in Prices, now \in FillTimes,
       update \in BOOLEAN :
        /\ suspended
        /\ Sell(agent, amount, price, now, update)
        /\ Len(mkt'.buying) + Len(mkt'.selling) + mkt'.transaction <= MaxFill

InterClose == \E agent \in Agents : suspended /\ Close(agent)

InterExecute == \E now \in FillTimes : mkt = market("grain") /\ Execute(now)

NextInterleaved ==
    \/ InterExecute
    \/ InterBuy
    \/ InterSell
    \/ InterClose
    \/ PullBuyer
    \/ PullSeller
    \/ PullStop
    \/ Abandon
    \/ Finish

SpecInterleaved == Init /\ [][NextInterleaved]_vars

\* A consumer that iterates ("for order in mkt.execute()") goes on pulling
\* from a live generator until it ends or the consumer drops it.
SpecFillPulled == SpecFill /\ WF_vars(PullBuyer \/ PullSeller \/ PullStop)

\* The orders of test_market_simple, prices in cents.  The test enters them
\* in one order; here they are entered (and entered again, which replaces
\* the order by itself) in any order until an execute has made a match.
ScenarioSells ==
    {[agent |-> "agent A", amount |-> 250, price |-> 400, now |-> 1],
     [agent |-> "agent C", amount |-> 200, price |-> 400, now |-> 2],
     [agent |-> "agent D", amount |-> 200, price |-> 401, now |-> 3],
     [agent |-> "agent E", amount |-> 100, price |-> 410, now |-> 5]}

ScenarioBuys ==
    {[agent |-> "agent B", amount |-> 500, price |-> 410, now |-> 2],
     [agent |-> "agent F", amount |-> 10, price |-> 399, now |-> 6]}

ScenarioSell ==
    \E call \in ScenarioSells :
        /\ idle
        /\ mkt.transaction = 0
        /\ Sell(call.agent, call.amount, call.price, call.now, TRUE)

ScenarioBuy ==
    \E call \in ScenarioBuys :
        /\ idle
        /\ mkt.transaction = 0
        /\ Buy(call.agent, call.amount, call.price, call.now, TRUE)

ScenarioExecute == Execute(6)

NextScenario ==
    \/ ScenarioSell
    \/ ScenarioBuy
    \/ ScenarioExecute
    \/ PullBuyer
    \/ PullSeller
    \/ PullStop
    \/ Finish

SpecScenario == Init /\ [][NextScenario]_vars

\* The driver of an exchange: it submits orders of one unit, all of one
\* timestamp, for either security through buy, sell and enter, asks prices,
\* and executes; it calls the exchange only while no generator of
\* exchange.execute is live.  An entry is accepted while the orders resting
\* in all the markets of the exchange, plus the matches they made, stay
\* within MaxListed.
ListedPrices == {1, None}

ListedTimes == {1}

RECURSIVE resting(_, _)
resting(x, securities) ==
    IF securities = {} THEN 0
    ELSE LET security == CHOOSE security \in securities : TRUE
         IN  Len(x.markets[security].buying) + Len(x.markets[security].selling)
             + x.markets[security].transaction
             + resting(x, securities \ {security})

exchange_room(x) == resting(x, DOMAIN x.markets) <= MaxListed

xidle == xgen.pc = "none"

ExchangeBuy ==
    \E security \in Securities, agent \in Agents, amount \in UnitAmounts,
       price \in ListedPrices, now \in ListedTimes, update \in BOOLEAN :
        /\ xidle
        /\ xchg' = exchange_buy(xchg, security, agent, amount, price, now, update)
        /\ exchange_room(xchg')
        /\ returned' = no_return
        /\ UNCHANGED <<avars, mvars, xgen, xyielded>>

ExchangeSell ==
    \E security \in Securities, agent \in Agents, amount \in UnitAmounts,
       price \in ListedPrices, now \in ListedTimes, update \in BOOLEAN :
        /\ xidle
        /\ xchg' = exchange_sell(xchg, security, agent, amount, price, now, update)
        /\ exchange_room(xchg')
        /\ returned' = no_return
        /\ UNCHANGED <<avars, mvars, xgen, xyielded>>

ExchangeEnter ==
    \E security \in Securities, agent \in Agents, amount \in UnitAmounts,
       price \in ListedPrices, now \in ListedTimes, sign \in {1, -1},
       update \in BOOLEAN :
        /\ xidle
        /\ xchg' = exchange_enter(xchg, trade(security, price, now, sign * amount, agent),
                                  update)
        /\ exchange_room(xchg')
        /\ returned' = no_return
        /\ UNCHANGED <<avars, mvars, xgen, xyielded>>

\* xchg.price( security ) that makes a market for a security that has none.
ExchangePrice_making ==
    \E security \in Securities :
        /\ xidle
        /\ returned' = [call |-> "price", security |-> security,
                        value |-> exchange_price(xchg, security)]
        /\ xchg' = [xchg EXCEPT !.markets = with_market(xchg, security)]
        /\ UNCHANGED <<avars, mvars, xgen, xyielded>>

\* xchg.price( security )
ExchangePrice ==
    \E security \in Securities :
        /\ xidle
        /\ returned' = [call |-> "price", security |-> security,
                        value |-> exchange_price(xchg, security)]
        /\ UNCHANGED <<avars, mvars, xchg, xgen, xyielded>>

\* xchg.execute( now ): a generator is made; none of its code has run yet.
ExchangeExecute ==
    \E now \in ListedTimes, order \in values_orders(xchg.markets) :
        /\ xidle
        /\ xgen' = [no_xgen EXCEPT !.pc = "start", !.now = now, !.order = order,
                                   !.before = xchg.markets]
        /\ xyielded' = <<>>
        /\ returned' = no_return
        /\ UNCHANGED <<avars, mvars, xchg>>

\* A pull that runs the loops up to the first yield of the next match: on in
\* the market being pulled if it has one to make, else past the markets that
\* have none.
ExchangePullBuyer ==
    /\ xgen.pc \in {"start", "seller"}
    /\ \A security \in DOMAIN xchg.markets : ~raises(xchg.markets[security])
    /\ next_match(xchg.markets, xgen.order, xgen.at) # 0
    /\ LET at == next_match(xchg.markets, xgen.order, xgen.at)
           m == xchg.markets[xgen.order[at]]
           price == match_price(m)
           amount == match_amount(m)
       IN  /\ xchg' = [xchg EXCEPT !.markets[xgen.order[at]] = match(m, price)]
           /\ xgen' = [xgen EXCEPT !.pc = "buyer", !.at = at, !.price = price,
                                   !.amount = amount, !.seller = top_sell(m).agent]
           /\ xyielded' = Append(xyielded,
                                 trade(m.name, price, xgen.now, amount, top_buy(m).agent))
           /\ UNCHANGED <<avars, mvars, returned>>

\* The second yield with the security of the first market of the exchange.
ExchangePullSeller_first ==
    /\ xgen.pc = "buyer"
    /\ xgen' = [xgen EXCEPT !.pc = "seller"]
    /\ xyielded' = Append(xyielded,
                          trade(xgen.order[1], xgen.price, xgen.now,
                                -xgen.amount, xgen.seller))
    /\ UNCHANGED <<avars, mvars, xchg, returned>>

\* A pull that resumes after the first yield and stops at the second.
ExchangePullSeller ==
    /\ xgen.pc = "buyer"
    /\ xgen' = [xgen EXCEPT !.pc = "seller"]
    /\ xyielded' = Append(xyielded,
                          trade(xgen.order[xgen.at], xgen.price, xgen.now,
                                -xgen.amount, xgen.seller))
    /\ UNCHANGED <<avars, mvars, xchg, returned>>

\* A pull that finds no match left in any market: the generator is exhausted.
ExchangePullStop ==
    /\ xgen.pc \in {"start", "seller"}
    /\ \A security \in DOMAIN xchg.markets : ~raises(xchg.markets[security])
    /\ next_match(xchg.markets, xgen.order, xgen.at) = 0
    /\ xgen' = [xgen EXCEPT !.pc = "done", !.at = Len(xgen.order)]
    /\ UNCHANGED <<avars, mvars, xchg, xyielded, returned>>

\* The consumer is through with an exhausted generator and its Trades.
ExchangeFinish ==
    /\ xgen.pc = "done"
    /\ xgen' = no_xgen
    /\ xyielded' = <<>>
    /\ UNCHANGED <<avars, mvars, xchg, returned>>

NextExchange ==
    \/ ExchangeSell
    \/ ExchangeBuy
    \/ ExchangeEnter
    \/ ExchangePrice
    \/ ExchangeExecute
    \/ ExchangePullBuyer
    \/ ExchangePullSeller
    \/ ExchangePullStop
    \/ ExchangeFinish

SpecExchange == Init /\ [][NextExchange]_vars

\* ---------------------------------------------------------- alarm actions

aidle == agen.pc = "none"

\* a._severity = sev
AlarmSeverity ==
    \E sev \in Severities :
        /\ aidle
        /\ alm' = [alm EXCEPT !.severity = sev]
        /\ UNCHANGED <<mvars, xvars, agen, ayielded>>

\* a.ack( seq )
AlarmAck ==
    \E seq \in AckNumbers :
        /\ aidle
        /\ alm' = ack(alm, seq).alarm
        /\ UNCHANGED <<mvars, xvars, agen, ayielded>>

\* a.compute( ack = arg ): a generator is made; none of its code has run yet.
AlarmCompute ==
    \E arg \in AckNumbers :
        /\ aidle
        /\ alm.sequence < MaxSequence
        /\ agen' = [no_agen EXCEPT !.pc = "start", !.arg = arg, !.before = alm]
        /\ ayielded' = <<>>
        /\ UNCHANGED <<mvars, xvars, alm>>

alive == agen.pc \in {"start", "acked", "base", "unacked"}

\* A pull that runs the generator up to a yield: the consumer gets the alarm.
AlarmPull ==
    /\ alive
    /\ resume(alm, agen).yields
    /\ alm' = resume(alm, agen).alarm
    /\ agen' = resume(alm, agen).gen
    /\ ayielded' = Append(ayielded, state(alm'))
    /\ UNCHANGED <<mvars, xvars>>

\* A pull that runs the generator to its end: it raises StopIteration.
AlarmPullStop ==
    /\ alive
    /\ ~resume(alm, agen).yields
    /\ alm' = resume(alm, agen).alarm
    /\ agen' = resume(alm, agen).gen
    /\ UNCHANGED <<mvars, xvars, ayielded>>

\* The consumer stops pulling before the generator is exhausted, and drops it.
AlarmAbandon ==
    /\ alive
    /\ agen' = no_agen
    /\ ayielded' = <<>>
    /\ UNCHANGED <<mvars, xvars, alm>>

\* The consumer is through with an exhausted generator and its transitions.
AlarmFinish ==
    /\ agen.pc = "done"
    /\ agen' = no_agen
    /\ ayielded' = <<>>
    /\ UNCHANGED <<mvars, xvars, alm>>

NextAlarm ==
    \/ AlarmSeverity
    \/ AlarmAck
    \/ AlarmCompute
    \/ AlarmPull
    \/ AlarmPullStop
    \/ AlarmAbandon
    \/ AlarmFinish

SpecAlarm == Init /\ [][NextAlarm]_vars

\* ----------------------------------------------------------------- claims

limit(order) == order.price \in LimitPrices

\* A match has been made and at least its buyer's Trade has been pulled.
matched == gen.pc \in {"buyer", "seller"}

\* The Trades of the latest match that have been pulled so far.
match_trades ==
    IF gen.pc = "buyer" THEN {yielded[Len(yielded)]}
    ELSE IF gen.pc = "seller" THEN {yielded[Len(yielded) - 1], yielded[Len(yielded)]}
    ELSE {}

C2_LimitPricesMarketOrder ==
    /\ (matched /\ ~limit(gen.bought) /\ limit(gen.sold))
       => \A t \in match_trades : t.price = gen.sold.price
    /\ (matched /\ limit(gen.bought) /\ ~limit(gen.sold))
       => \A t \in match_trades : t.price = gen.bought.price

\* The later order is the market order, and its own book holds another limit
\* order at another price.
C2_Witness ==
    /\ gen.pc = "seller"
    /\ limit(gen.bought) /\ ~limit(gen.sold)
    /\ gen.bought.time < gen.sold.time
    /\ yielded[Len(yielded)].price = gen.bought.price
    /\ \E i \in 1 .. Len(mkt.selling) :
          limit(mkt.selling[i]) /\ mkt.selling[i].price # gen.bought.price

\* The price of the first limit order of a list of orders; None if it has none.
RECURSIVE nearest_limit(_)
nearest_limit(orders) ==
    IF orders = <<>> THEN None
    ELSE IF limit(Head(orders)) THEN Head(orders).price
    ELSE nearest_limit(Tail(orders))

\* A step that is a pull running one pass of the loop of execute to a match.
match_step == gen.pc \in {"start", "seller"} /\ gen'.pc = "buyer"

\* C3: when both matched top orders are market orders, the price is that of the
\* first limit order met scanning the older order's own book from its top
\* outward (the buy book from its tail if the buyer's timestamp is strictly
\* earlier, else the sell book from its head) and, only if that book holds no
\* limit order, scanning the opposite book from its top outward.
C3_BothMarketNearestLimit ==
    [][(match_step /\ ~limit(top_buy(mkt)) /\ ~limit(top_sell(mkt)))
       => LET buys == [i \in 1 .. Len(mkt.buying) |->
                          mkt.buying[Len(mkt.buying) + 1 - i]]
              sells == mkt.selling
              buyer_older == top_buy(mkt).time < top_sell(mkt).time
              own == IF buyer_older THEN buys ELSE sells
              opposite == IF buyer_older THEN sells ELSE buys
          IN  yielded'[Len(yielded')].price =
                 IF nearest_limit(own) # None THEN nearest_limit(own)
                 ELSE nearest_limit(opposite)]_vars

\* Two market orders were matched, the buyer's the older, at the price of the
\* limit buy left in the buy book, while the sell book holds a limit order at
\* another price.
C3_Witness ==
    /\ gen.pc = "buyer"
    /\ ~limit(gen.bought) /\ ~limit(gen.sold)
    /\ gen.bought.time < gen.sold.time
    /\ mkt.buying # <<>> /\ mkt.selling # <<>>
    /\ limit(top_buy(mkt)) /\ limit(top_sell(mkt))
    /\ top_buy(mkt).price # top_sell(mkt).price
    /\ yielded[Len(yielded)].price = top_buy(mkt).price

has_limit(book) == \E i \in 1 .. Len(book) : limit(book[i])

\* Neither book holds a limit order.
no_limit(m) == ~has_limit(m.buying) /\ ~has_limit(m.selling)

\* Market orders on both sides and no limit order anywhere: no price exists.
stuck(m) == m.buying # <<>> /\ m.selling # <<>> /\ no_limit(m)

both_tops_market(m) ==
    /\ m.buying # <<>> /\ m.selling # <<>>
    /\ ~limit(top_buy(m)) /\ ~limit(top_sell(m))

\* A step that is a pull starting a pass of the loop of execute.
pass_step == gen.pc \in {"start", "seller"} /\ gen'.pc \in {"buyer", "done"}

\* A pass of execute over market orders only yields no Trade, ends the sequence
\* and changes neither the books, the last price nor the transaction count.
stuck_pass_yields_nothing ==
    [][(pass_step /\ stuck(mkt))
       => (gen'.pc = "done" /\ mkt' = mkt /\ yielded' = yielded)]_vars

\* A pass that finds market orders on top of both books and a limit order
\* anywhere matches those two market orders.
priced_pass_matches_tops ==
    [][(pass_step /\ both_tops_market(mkt) /\ ~no_limit(mkt))
       => (gen'.pc = "buyer" /\ gen'.bought = top_buy(mkt)
                             /\ gen'.sold = top_sell(mkt))]_vars

\* A step that enters a limit order into books that held none.
limit_arrives == stuck(mkt) /\ ~no_limit(mkt')

\* The owner of the one limit order of books that hold exactly one.
limit_owner(m) ==
    LET all == m.buying \o m.selling
    IN  all[CHOOSE i \in 1 .. Len(all) : limit(all[i])].agent

\* C4 as stated: execute on market orders alone trades nothing and changes
\* nothing, and once a limit order has been entered the two market orders that
\* were on top are still on top, so that the next execute matches them.
C4_AsStated ==
    /\ stuck_pass_yields_nothing
    /\ priced_pass_matches_tops
    /\ [][limit_arrives => (/\ mkt'.buying # <<>> /\ mkt'.selling # <<>>
                            /\ top_buy(mkt') = top_buy(mkt)
                            /\ top_sell(mkt') = top_sell(mkt))]_vars

\* C4 as amended: the same, but the entry of the limit order keeps a market
\* order on top only if it is not an order of the entering owner, whose orders
\* an entry with update=True removes; the next execute matches the market
\* orders that are then on top of both books, if both books still have one.
C4_StuckUntilLimitArrives ==
    /\ stuck_pass_yields_nothing
    /\ priced_pass_matches_tops
    /\ [][limit_arrives
          => (/\ top_buy(mkt).agent # limit_owner(mkt')
                 => (mkt'.buying # <<>> /\ top_buy(mkt') = top_buy(mkt))
              /\ top_sell(mkt).agent # limit_owner(mkt')
                 => (mkt'.selling # <<>> /\ top_sell(mkt') = top_sell(mkt)))]_vars

\* An execute has run to its end over market orders alone, without a Trade.
C4_Witness ==
    /\ gen.pc = "done"
    /\ yielded = <<>>
    /\ stuck(mkt)
    /\ mkt.transaction = 0

\* C5: once both Trades of a match have been pulled, they are the buyer's with
\* amount +a and then the seller's with amount -a, a > 0, with the same price,
\* the market's security and the time given to execute; Trades come in pairs.
C5_TwoTradesPerMatch ==
    /\ gen.pc = "buyer" => Len(yielded) % 2 = 1
    /\ gen.pc \in {"start", "seller", "done"} => Len(yielded) % 2 = 0
    /\ gen.pc = "seller"
       => LET b == yielded[Len(yielded) - 1]
              s == yielded[Len(yielded)]
          IN  /\ b.amount > 0
              /\ s.amount = -b.amount
              /\ b.agent = gen.bought.agent /\ s.agent = gen.sold.agent
              /\ b.price = s.price
              /\ b.security = mkt.name /\ s.security = mkt.name
              /\ b.time = gen.now /\ s.time = gen.now

\* C6: a pass of execute that finds limit orders on top of both books, the
\* sell price above the buy price, yields no Trade, ends the sequence and
\* changes nothing.
C6_NoTradeThrough ==
    [][(/\ pass_step
        /\ mkt.buying # <<>> /\ mkt.selling # <<>>
        /\ limit(top_buy(mkt)) /\ limit(top_sell(mkt))
        /\ top_sell(mkt).price > top_buy(mkt).price)
       => (gen'.pc = "done" /\ mkt' = mkt /\ yielded' = yielded)]_vars

\* An execute has run to its end, without a Trade, over books whose best limit
\* ask is above the best limit bid.
C6_Witness ==
    /\ gen.pc = "done"
    /\ yielded = <<>>
    /\ mkt.buying # <<>> /\ mkt.selling # <<>>
    /\ limit(top_buy(mkt)) /\ limit(top_sell(mkt))
    /\ top_sell(mkt).price > top_buy(mkt).price

C8_OldestFirst ==
    matched
    => /\ \A i \in 1 .. Len(mkt.buying) :
             mkt.buying[i].price = gen.bought.price
             => gen.bought.time <= mkt.buying[i].time
       /\ \A i \in 1 .. Len(mkt.selling) :
             mkt.selling[i].price = gen.sold.price
             => gen.sold.time <= mkt.selling[i].time

\* C9: in every state the order execute would match next on each side is a
\* most aggressive one: a market order if the side has any, otherwise a limit
\* order at the highest resting buy price, or the lowest resting sell price.
C9_TopIsMostAggressive ==
    /\ mkt.buying # <<>>
       => IF \E i \in 1 .. Len(mkt.buying) : ~limit(mkt.buying[i])
          THEN ~limit(top_buy(mkt))
          ELSE \A i \in 1 .. Len(mkt.buying) :
                  mkt.buying[i].price <= top_buy(mkt).price
    /\ mkt.selling # <<>>
       => IF \E i \in 1 .. Len(mkt.selling) : ~limit(mkt.selling[i])
          THEN ~limit(top_sell(mkt))
          ELSE \A i \in 1 .. Len(mkt.selling) :
                  mkt.selling[i].price >= top_sell(mkt).price

\* A market buy rests on top of a limit buy, and the lower-priced of two limit
\* sells at different prices is at the head of the sell book.
C9_Witness ==
    /\ Len(mkt.buying) = 2 /\ Len(mkt.selling) = 2
    /\ ~limit(mkt.buying[2]) /\ limit(mkt.buying[1])
    /\ limit(mkt.selling[1]) /\ limit(mkt.selling[2])
    /\ mkt.selling[1].price < mkt.selling[2].price

\* Every order that buy, sell or enter can be given.
Orders ==
    {trade("grain", price, time, amount, agent) :
        price \in Prices, time \in Times, agent \in Agents,
        amount \in Amounts \cup {-a : a \in Amounts}}

one_per_owner(m) == \A agent \in Agents : Len(open(m, agent)) <= 1

\* C10: in every state in which the driver may enter an order, entering any
\* order with update=True leaves that order as the only open order of its
\* owner; and the only step that takes a market from at most one resting order
\* per owner to more is the entry of an order with update=False, never an
\* entry with update=True, a close or a match, so that where every order is
\* entered with update=True every owner has at most one resting order in every
\* state, partial fills included.
C10_CancelReplace ==
    /\ [](idle => \A o \in Orders : open(enter(mkt, o, TRUE), o.agent) = <<o>>)
    /\ [][(one_per_owner(mkt) /\ ~one_per_owner(mkt'))
          => /\ \E o \in Orders : mkt' = enter(mkt, o, FALSE)
             /\ \A o \in Orders : mkt' # enter(mkt, o, TRUE)]_vars

\* An owner has an order resting in each book, and entering a new order with
\* update=True leaves the new order as the owner's only one.
C10_Witness ==
    \E o \in Orders :
        /\ idle
        /\ \E i \in 1 .. Len(mkt.buying) : mkt.buying[i].agent = o.agent
        /\ \E i \in 1 .. Len(mkt.selling) : mkt.selling[i].agent = o.agent
        /\ open(enter(mkt, o, TRUE), o.agent) = <<o>>
        /\ one_per_owner(enter(mkt, o, TRUE))

\* The generator of execute has been made and not yet dropped.
running == gen.pc \in {"start", "buyer", "seller", "done"}

\* The quantity resting in a book: the sum of the sizes of its orders.
RECURSIVE quantity(_)
quantity(book) ==
    IF book = <<>> THEN 0
    ELSE (IF Head(book).amount < 0 THEN -Head(book).amount ELSE Head(book).amount)
         + quantity(Tail(book))

\* The buyer's Trades are the odd-numbered Trades pulled, the seller's the
\* even-numbered ones.
RECURSIVE pulled_amount(_, _)
pulled_amount(trades, parity) ==
    IF trades = <<>> THEN 0
    ELSE (IF Len(trades) % 2 = parity
          THEN (IF trades[Len(trades)].amount < 0
                THEN -trades[Len(trades)].amount ELSE trades[Len(trades)].amount)
          ELSE 0)
         + pulled_amount(SubSeq(trades, 1, Len(trades) - 1), parity)

bought_pulled == pulled_amount(yielded, 1)

sold_pulled == pulled_amount(yielded, 0)

removed_buying == quantity(gen.before.buying) - quantity(mkt.buying)

removed_selling == quantity(gen.before.selling) - quantity(mkt.selling)

\* C11 as stated: whatever the number of Trades pulled from a generator, the
\* quantity gone from the buy book is the total of the buyer's Trades pulled
\* and the quantity gone from the sell book the total of the seller's Trades
\* pulled.
C11_AsStated ==
    running => /\ removed_buying = bought_pulled
               /\ removed_selling = sold_pulled

\* C11: after k Trades pulled from a generator, the books, the last price and
\* the transaction count are those after the matches whose buyer's Trade has
\* been pulled, (k + 1) \div 2 of them: the quantity gone from each book is
\* the total of the buyer's Trades pulled, which is the total of the seller's
\* Trades pulled when k is even and exceeds it by the amount of the latest
\* match when k is odd.
C11_PartialConsumption ==
    running =>
        /\ removed_buying = bought_pulled
        /\ removed_selling = bought_pulled
        /\ sold_pulled = bought_pulled - (IF gen.pc = "buyer" THEN gen.amount ELSE 0)
        /\ mkt.transaction - gen.before.transaction = (Len(yielded) + 1) \div 2
        /\ mkt.lastprice = IF yielded = <<>> THEN gen.before.lastprice
                           ELSE yielded[Len(yielded)].price

\* Three Trades pulled: the second match filled the buy order in part, and the
\* sell book has lost the quantity of a Trade not pulled yet.
C11_Witness ==
    /\ gen.pc = "buyer"
    /\ Len(yielded) = 3
    /\ gen.amount < gen.bought.amount
    /\ removed_selling = sold_pulled + gen.amount
    /\ removed_buying = bought_pulled

\* A step in which the consumer drops a generator it has not exhausted.
abandon_step == gen.pc \in {"start", "buyer", "seller"} /\ gen'.pc = "none"

\* C12: a generator pulled to exhaustion leaves the market that the loop of
\* execute makes of the market it was called on; and when a generator is
\* dropped after any number of pulls, a new execute run to exhaustion on the
\* market it leaves ends with the same books, last price and transaction
\* count as that single run.
C12_AbandonThenRerun ==
    /\ [](gen.pc = "done" => mkt = execute(gen.before))
    /\ [][abandon_step => execute(mkt') = execute(gen.before)]_vars

\* A generator is dropped between the two Trades of its first match, with a
\* second match left to make.
C12_Witness ==
    /\ gen.pc = "buyer"
    /\ Len(yielded) = 1
    /\ can_match(mkt)
    /\ execute(mkt) = execute(gen.before)
    /\ execute(mkt).transaction = gen.before.transaction + 2

\* The orders of a book, as a set.
orders_of(book) == {book[i] : i \in 1 .. Len(book)}

\* C13: a step that does what exchange.sell(security, agent, amount, price)
\* does leaves a market for the security whose selling book holds an order of
\* quantity -amount for the agent, and adds nothing to its buying book.
C13_ExchangeSellSells ==
    [][\A security \in Securities, agent \in Agents, amount \in UnitAmounts,
         price \in ListedPrices, now \in ListedTimes, update \in BOOLEAN :
          xchg' = exchange_sell(xchg, security, agent, amount, price, now, update)
          => /\ security \in DOMAIN xchg'.markets
             /\ trade(security, price, now, -amount, agent)
                    \in orders_of(xchg'.markets[security].selling)
             /\ orders_of(xchg'.markets[security].buying)
                    \subseteq orders_of(with_market(xchg, security)[security].buying)]_vars

\* Orders of zero quantity, and limit orders at a price below zero.
InvalidOrders ==
    LET submitted == {trade("grain", price, time, amount, agent) :
                        price \in Prices \cup {-1}, time \in Times, agent \in Agents,
                        amount \in {-2, -1, 0, 1, 2}}
    IN  {o \in submitted : o.amount = 0 \/ o.price < 0}

\* C14: a step that does what entering an order of zero quantity or of
\* negative limit price does, with or without update, changes neither book:
\* the order is not inserted and the resting orders of its owner stay.
C14_InvalidOrderRejected ==
    [][\A o \in InvalidOrders, update \in BOOLEAN :
          (idle /\ mkt' = enter(mkt, o, update))
          => mkt'.buying = mkt.buying /\ mkt'.selling = mkt.selling]_vars

\* All six orders of the scenario are resting.
scenario_entered(m) == Len(m.buying) = 2 /\ Len(m.selling) = 4

\* The Trades pulled so far that carry the agent.
trades_of(agent) == {i \in 1 .. Len(yielded) : yielded[i].agent = agent}

C16_AsStated ==
    (scenario_entered(gen.before) /\ gen.pc = "done") =>
        /\ \A i \in trades_of("agent D") :
              yielded[i].amount = -150 /\ yielded[i].price = 401
        /\ mkt.buying = <<trade("grain", 399, 6, 10, "agent F")>>
        /\ mkt.selling = <<trade("grain", 401, 3, -50, "agent D"),
                           trade("grain", 410, 5, -100, "agent E")>>

\* C16: in the scenario D is matched for 50 units at 4.01, what is left of B's
\* 500 after C's 200 and A's 250, and the books left are F's buy of 10 at 3.99
\* and the sells of D, 150 at 4.01, and of E, 100 at 4.10.
C16_ScenarioBook ==
    (scenario_entered(gen.before) /\ gen.pc = "done") =>
        /\ trades_of("agent D") # {}
        /\ \A i \in trades_of("agent D") :
              yielded[i].amount = -50 /\ yielded[i].price = 401
        /\ mkt.buying = <<trade("grain", 399, 6, 10, "agent F")>>
        /\ mkt.selling = <<trade("grain", 401, 3, -150, "agent D"),
                           trade("grain", 410, 5, -100, "agent E")>>

C16_Witness ==
    /\ scenario_entered(gen.before)
    /\ gen.pc = "done"
    /\ quantity(gen.before.selling) - quantity(mkt.selling) = 500
    /\ mkt.selling[1].agent = "agent D"
    /\ mkt.selling[1].amount = -150

\* C17: a pull from a generator of execute never raises: suspended at the
\* first yield it yields the seller's Trade; otherwise it either runs a pass
\* to the buyer's Trade or ends the sequence, one of the two, and a pass over
\* crossed books never reads a search it did not assign.
C17_NeverRaises ==
    /\ gen.pc = "buyer" => ENABLED PullSeller
    /\ gen.pc \in {"start", "seller"} =>
          /\ (ENABLED PullBuyer) # (ENABLED PullStop)
          /\ ~raises(mkt)

\* A pass begins with a market order on top of each book, the seller's not
\* later than the buyer's: the search is assigned and read.
C17_Witness ==
    /\ gen.pc \in {"start", "seller"}
    /\ crossed(mkt)
    /\ both_tops_market(mkt)
    /\ top_sell(mkt).time <= top_buy(mkt).time
    /\ search_assigned(mkt)
    /\ non_value(price_unsearched(mkt))
    /\ ENABLED PullBuyer

\* The number of orders resting in the two books.
depth(m) == Len(m.buying) + Len(m.selling)

\* C18: a generator of execute called on books of m buy orders and n sell
\* orders of non-zero quantity, with no order entered while it is live, makes
\* at most m + n - 1 matches (none on empty books), each of which takes at
\* least one order off the books; and, pulled on, it ends its sequence
\* unless the consumer drops it first.
C18_Finite ==
    /\ [](running =>
            /\ mkt.transaction - gen.before.transaction <= depth(gen.before) - depth(mkt)
            /\ (depth(gen.before) > 0 =>
                    mkt.transaction - gen.before.transaction <= depth(gen.before) - 1)
            /\ (depth(gen.before) = 0 => mkt.transaction = gen.before.transaction))
    /\ [][match_step => depth(mkt') < depth(mkt)]_vars
    /\ (gen.pc = "start" ~> gen.pc \in {"done", "none"})

\* A generator called on books of three orders has ended after two matches,
\* the first of which filled an order in part only.
C18_Witness ==
    /\ gen.pc = "done"
    /\ depth(gen.before) = 3
    /\ mkt.transaction - gen.before.transaction = 2
    /\ depth(mkt) = 0
    /\ Len(yielded) = 4

\* C19: where every order submitted has a non-zero quantity, in every state,
\* those in which a generator of execute is suspended at a yield included,
\* every order of the buying book has a quantity above zero and every order of
\* the selling book a quantity below zero.
C19_SignedQuantities ==
    /\ \A i \in 1 .. Len(mkt.buying) : mkt.buying[i].amount > 0
    /\ \A i \in 1 .. Len(mkt.selling) : mkt.selling[i].amount < 0

\* A generator is suspended at its first yield after a match that filled the
\* sell order in part and left the rest of it on top of the selling book.
C19_Witness ==
    /\ gen.pc = "buyer"
    /\ gen.amount < -gen.sold.amount
    /\ mkt.selling # <<>>
    /\ mkt.selling[1] = [gen.sold EXCEPT !.amount = gen.sold.amount + gen.amount]
    /\ mkt.selling[1].amount < 0
    /\ mkt.buying # <<>>

\* A book with every order of the agent struck out, the others kept as they
\* stand.
RECURSIVE others(_, _)
others(book, agent) ==
    IF book = <<>> THEN <<>>
    ELSE IF Head(book).agent = agent THEN others(Tail(book), agent)
    ELSE <<Head(book)>> \o others(Tail(book), agent)

\* C20: in every state, close(owner) leaves no order of the owner in either
\* book and the other owners' orders unchanged and in the same relative
\* order, leaves the last price and the transaction count as they were, and a
\* second close(owner) changes nothing.
C20_CloseFrame ==
    \A agent \in Agents :
        LET closed == close(mkt, agent)
        IN  /\ open(closed, agent) = <<>>
            /\ closed.buying = others(mkt.buying, agent)
            /\ closed.selling = others(mkt.selling, agent)
            /\ closed.lastprice = mkt.lastprice
            /\ closed.transaction = mkt.transaction
            /\ closed.name = mkt.name
            /\ close(closed, agent) = closed

\* The owner has an order in each book, the one in the buying book between
\* two orders of another owner, which alone are left there by the close.
C20_Witness ==
    \E agent \in Agents :
        /\ idle
        /\ Len(mkt.buying) = 3
        /\ mkt.buying[2].agent = agent
        /\ mkt.buying[1].agent # agent /\ mkt.buying[3].agent # agent
        /\ \E i \in 1 .. Len(mkt.selling) : mkt.selling[i].agent = agent
        /\ close(mkt, agent).buying = <<mkt.buying[1], mkt.buying[3]>>
        /\ close(mkt, agent).selling = <<>>

\* How many times an order stands in a list of orders.
count(orders, order) == Cardinality({i \in 1 .. Len(orders) : orders[i] = order})

\* C21: in every state in which the driver may enter an order, entering any
\* order with update=False leaves every resting order resting in its book with
\* its fields unchanged, as many times as before, and adds the new order, one
\* more than before; the last price and the transaction count stay.
C21_EnterKeepsResting ==
    idle =>
        \A o \in Orders :
            LET entered == enter(mkt, o, FALSE)
                added(book) == IF o.amount >= 0
                               THEN (IF book = "buying" THEN 1 ELSE 0)
                               ELSE (IF book = "selling" THEN 1 ELSE 0)
            IN  /\ Len(entered.buying) = Len(mkt.buying) + added("buying")
                /\ Len(entered.selling) = Len(mkt.selling) + added("selling")
                /\ \A i \in 1 .. Len(mkt.buying) :
                      count(entered.buying, mkt.buying[i])
                      = count(mkt.buying, mkt.buying[i])
                        + (IF mkt.buying[i] = o THEN added("buying") ELSE 0)
                /\ \A i \in 1 .. Len(mkt.selling) :
                      count(entered.selling, mkt.selling[i])
                      = count(mkt.selling, mkt.selling[i])
                        + (IF mkt.selling[i] = o THEN added("selling") ELSE 0)
                /\ count(entered.buying \o entered.selling, o)
                   = count(mkt.buying \o mkt.selling, o) + 1
                /\ entered.lastprice = mkt.lastprice
                /\ entered.transaction = mkt.transaction

\* An owner with an order resting in each book enters a third: all three are
\* open afterwards.
C21_Witness ==
    \E o \in Orders :
        /\ idle
        /\ o.amount # 0
        /\ \E i \in 1 .. Len(mkt.buying) : mkt.buying[i].agent = o.agent
        /\ \E i \in 1 .. Len(mkt.selling) : mkt.selling[i].agent = o.agent
        /\ Len(open(mkt, o.agent)) = 2
        /\ Len(open(enter(mkt, o, FALSE), o.agent)) = 3

\* The limit prices of the orders of a book.
limit_prices(book) == {book[i].price : i \in {j \in 1 .. Len(book) : limit(book[j])}}

\* C23: in every state market.price() gives as bid the highest price of the
\* limit orders of the buying book, as ask the lowest price of the limit
\* orders of the selling book, 0 for a book with no limit order, and as last
\* the last price of the market, which is 0 while no match was made and the
\* price of the Trades of the latest match once one is made.
C23_PriceQuote ==
    LET quote == market_price(mkt)
        bids == limit_prices(mkt.buying)
        asks == limit_prices(mkt.selling)
    IN  /\ quote.bid = IF bids = {} THEN 0
                       ELSE CHOOSE p \in bids : \A q \in bids : q <= p
        /\ quote.ask = IF asks = {} THEN 0
                       ELSE CHOOSE p \in asks : \A q \in asks : p <= q
        /\ quote.last = mkt.lastprice
        /\ mkt.transaction = 0 => quote.last = 0
        /\ matched => \A t \in match_trades : quote.last = t.price

\* After a match at a price of 2, the buying book has a market order on top
\* of a limit order at 1: the quote skips the market order, and has no ask.
C23_Witness ==
    /\ matched
    /\ market_price(mkt) = prices(1, 0, 2)
    /\ mkt.buying # <<>>
    /\ ~limit(top_buy(mkt))
    /\ limit_prices(mkt.buying) = {1}
    /\ mkt.selling = <<>>

\* The orders resting in the two books of a market.
resting_orders(m) == m.buying \o m.selling

\* The list holds the orders of the agent that rest in the market, each as
\* many times as it rests there, and no other order of that security.
opened(list, m, agent) ==
    /\ \A i \in 1 .. Len(list) :
          list[i].security = m.name => count(resting_orders(m), list[i]) > 0
    /\ \A j \in 1 .. Len(resting_orders(m)) :
          count(list, resting_orders(m)[j]) = IF resting_orders(m)[j].agent = agent
                                    THEN count(resting_orders(m), resting_orders(m)[j]) ELSE 0

\* C22: in every state of an exchange and for every owner, market.open(owner)
\* of each of its markets is a list of exactly the orders of the owner resting
\* in the two books of that market, and exchange.open(owner) yields, whatever
\* the order of the markets, exactly the orders of the owner resting in all
\* the markets, each once.
C22_OpenOrders ==
    \A agent \in Agents :
        /\ \A security \in DOMAIN xchg.markets :
              LET m == xchg.markets[security]
                  list == open(m, agent)
              IN  /\ \A i \in 1 .. Len(list) :
                        list[i].agent = agent /\ list[i].security = security
                  /\ opened(list, m, agent)
        /\ \A order \in values_orders(xchg.markets) :
              LET list == exchange_open(xchg, agent, order)
              IN  /\ \A i \in 1 .. Len(list) :
                        list[i].agent = agent /\ list[i].security \in DOMAIN xchg.markets
                  /\ \A security \in DOMAIN xchg.markets :
                        opened(list, xchg.markets[security], agent)

\* An owner has an order in both books of one market and one in the other
\* market, where another owner has one too: open gives the owner's three.
C22_Witness ==
    \E agent \in Agents, order \in values_orders(xchg.markets) :
        /\ xidle
        /\ Len(order) = 2
        /\ Len(open(xchg.markets[order[1]], agent)) = 2
        /\ open_buying(xchg.markets[order[1]], agent) # open(xchg.markets[order[1]], agent)
        /\ Len(open(xchg.markets[order[2]], agent)) = 1
        /\ Len(resting_orders(xchg.markets[order[2]])) = 2
        /\ Len(exchange_open(xchg, agent, order)) = 3

\* A market of an exchange is the market it was: it has its name and no fewer
\* matches; and, where the exchange was called with no generator live (an
\* order was entered), its last price and transaction count and all its
\* resting orders but those of one owner at most.
retained(was, is) ==
    /\ is.name = was.name
    /\ is.transaction >= was.transaction
    /\ xidle /\ xidle' =>
          /\ is.lastprice = was.lastprice
          /\ is.transaction = was.transaction
          /\ \E agent \in Agents :
                /\ others(is.buying, agent) = others(was.buying, agent)
                /\ others(is.selling, agent) = others(was.selling, agent)

\* C24: the markets dict of an exchange has one market per security, named
\* after it; a step never removes a market nor replaces it by a new one: a
\* call for a security that has a market goes to that market, which keeps
\* its resting orders (but those the entry replaces), last price and
\* transaction count; and a step adds at most one market, with the order
\* whose entry created it.
C24_OneMarketPerSecurity ==
    /\ [](\A security \in DOMAIN xchg.markets :
             xchg.markets[security].name = security)
    /\ [][/\ \A security \in DOMAIN xchg.markets :
               /\ security \in DOMAIN xchg'.markets
               /\ retained(xchg.markets[security], xchg'.markets[security])
          /\ Cardinality(DOMAIN xchg'.markets) <= Cardinality(DOMAIN xchg.markets) + 1
          /\ \A security \in DOMAIN xchg'.markets \ DOMAIN xchg.markets :
               /\ Len(resting_orders(xchg'.markets[security])) = 1
               /\ xchg'.markets[security].transaction = 0]_vars

\* A market that has made a match has a match to make again: orders were
\* entered in it after its execute.
C24_Witness ==
    \E security \in DOMAIN xchg.markets :
        /\ xidle
        /\ xchg.markets[security].transaction = 1
        /\ xchg.markets[security].lastprice = 1
        /\ can_match(xchg.markets[security])

\* Where returned is what xchg.price( security ) returned, the exchange is as
\* it was left by the call.
price_returned == returned.call = "price"

\* C25: exchange.price(security) returns prices(None, None, None) for a
\* security that has no market, and for one that has what price() of its
\* market returns; it can be called in every state in which the driver may
\* call the exchange.
C25_ExchangePrice ==
    /\ xidle => ENABLED ExchangePrice
    /\ price_returned =>
          returned.value = IF returned.security \in DOMAIN xchg.markets
                           THEN market_price(xchg.markets[returned.security])
                           ELSE prices(None, None, None)

\* The exchange has a market with a limit order but none for the security
\* asked.
C25_Witness ==
    /\ price_returned
    /\ returned.security \notin DOMAIN xchg.markets
    /\ returned.value = prices(None, None, None)
    /\ \E security \in DOMAIN xchg.markets :
          exchange_price(xchg, security).bid = 1

\* A step that is a call of xchg.price( security ).
price_step == returned'.call = "price" /\ returned' # returned

\* C26 as stated: once exchange.price(security) has returned, the exchange has
\* a market for the security.
C26_AsStated == price_returned => returned.security \in DOMAIN xchg.markets

\* C26: exchange.price(security) leaves the exchange as it was, and makes no
\* market for a security that has none; a market is made only by the first
\* entry of an order for its security.
C26_PriceMakesNoMarket ==
    /\ [](price_returned /\ prices(None, None, None) = returned.value
            => returned.security \notin DOMAIN xchg.markets)
    /\ [][/\ price_step => xchg' = xchg
          /\ DOMAIN xchg'.markets # DOMAIN xchg.markets
                => returned' = no_return /\ xidle /\ xidle']_vars

\* A price was asked for a security with no market, and none was made.
C26_Witness ==
    /\ price_returned
    /\ returned.security \notin DOMAIN xchg.markets
    /\ xchg.markets # <<>>

\* The Trades that market.execute( now ) yields for each of the markets,
\* taken in the given order.
RECURSIVE markets_trades(_, _, _)
markets_trades(markets, order, now) ==
    IF order = <<>> THEN <<>>
    ELSE execute_trades(markets[Head(order)], now)
         \o markets_trades(markets, Tail(order), now)

xrunning == xgen.pc \in {"start", "buyer", "seller", "done"}

\* C27: the Trades pulled from a generator of exchange.execute(now) are the
\* first of the Trades that market.execute(now) yields for the markets the
\* exchange had when it was called, market after market in the order of the
\* dict, and all of them once it is exhausted; the buyer's Trade of a match is
\* followed by the seller's, the Trades of a security are contiguous, and
\* each carries the security of a market of the exchange.
C27_ExchangeExecute ==
    xrunning =>
        LET all == markets_trades(xgen.before, xgen.order, xgen.now)
            n == Len(xyielded)
        IN  /\ n <= Len(all)
            /\ xyielded = SubSeq(all, 1, n)
            /\ xgen.pc = "done" => n = Len(all)
            /\ xgen.pc = "seller" => n % 2 = 0
            /\ \A i \in 1 .. n :
                  /\ xyielded[i].security \in DOMAIN xgen.before
                  /\ xyielded[i].time = xgen.now
                  /\ (i % 2 = 0) =>
                        /\ xyielded[i].security = xyielded[i - 1].security
                        /\ xyielded[i].price = xyielded[i - 1].price
                        /\ xyielded[i].amount = -xyielded[i - 1].amount
            /\ \A i, j, k \in 1 .. n :
                  (i < j /\ j < k /\ xyielded[i].security = xyielded[k].security)
                  => xyielded[j].security = xyielded[i].security

\* Both markets made a match: four Trades, two of each security.
C27_Witness ==
    /\ xgen.pc = "done"
    /\ Len(xyielded) = 4
    /\ xyielded[1].security # xyielded[3].security
    /\ xyielded[2].security = xyielded[1].security
    /\ xyielded[4].security = xyielded[3].security
    /\ xyielded = markets_trades(xgen.before, xgen.order, xgen.now)

\* C28: a market starts with no transaction and last price 0; the step that
\* makes a match adds one to the transaction count and sets the last price to
\* the price of the Trade it yields, and no other step changes either; the
\* last price is the price of the latest match pulled, and once an execute is
\* exhausted the count has grown by half the number of Trades it yielded.
C28_TransactionAndLastPrice ==
    /\ [](mkt.transaction = 0 => mkt.lastprice = market(mkt.name).lastprice)
    /\ [](running /\ yielded # <<>> => mkt.lastprice = yielded[Len(yielded)].price)
    /\ [](running => mkt.transaction - gen.before.transaction = (Len(yielded) + 1) \div 2)
    /\ [](gen.pc = "done" => 2 * (mkt.transaction - gen.before.transaction) = Len(yielded))
    /\ [][IF match_step
          THEN /\ mkt'.transaction = mkt.transaction + 1
               /\ mkt'.lastprice = yielded'[Len(yielded')].price
          ELSE /\ mkt'.transaction = mkt.transaction
               /\ mkt'.lastprice = mkt.lastprice]_vars

\* A second execute, exhausted after one match at another price than the
\* match of the execute before it.
C28_Witness ==
    /\ gen.pc = "done"
    /\ gen.before.transaction = 1
    /\ mkt.transaction = 2
    /\ Len(yielded) = 2
    /\ mkt.lastprice = yielded[2].price
    /\ mkt.lastprice # gen.before.lastprice

RECURSIVE replay(_, _)
replay(m, n) == IF n = 0 THEN m ELSE replay(match(m, match_price(m)), n - 1)

\* m is made into is by close( agent ), or by the entry of an order that rests
\* in is.
entered(m, is) ==
    \/ \E agent \in Agents : is = close(m, agent)
    \/ \E i \in 1 .. Len(resting_orders(is)), update \in BOOLEAN :
          is = enter(m, resting_orders(is)[i], update)

computing == agen.pc # "none"

\* A step that yields a transition to the consumer of compute.
transition_step == Len(ayielded') = Len(ayielded) + 1

\* C31: the sequence number of an ack alarm is -1 when it is made; a step that
\* yields a transition of compute() adds one to it, and the transition
\* carries the new number; no other step (ack(), a change of severity, a pull
\* that ends compute, dropping the generator) changes it; and the first
\* transition pulled from the first compute() is the boot transition, to
\* sequence number 0.
C31_SequenceNumber ==
    /\ [](ack_alarm.sequence = -1 /\ alm.sequence >= -1)
    /\ [](computing => alm.sequence = agen.before.sequence + Len(ayielded))
    /\ [](computing /\ agen.before.sequence = -1 =>
            /\ agen.pc = "start" => ENABLED AlarmPull
            /\ agen.pc # "start" => ayielded[1] = <<0, 0>>)
    /\ [][IF transition_step
          THEN /\ alm'.sequence = alm.sequence + 1
               /\ ayielded'[Len(ayielded')][2] = alm'.sequence
          ELSE alm'.sequence = alm.sequence]_vars

\* The first compute, of an alarm whose severity was raised and that was given
\* a number to ack: the boot transition, then the transition to unacknowledged.
C31_Witness ==
    /\ agen.pc = "done"
    /\ agen.before.sequence = -1
    /\ agen.before.severity = 2
    /\ agen.arg = 0
    /\ ayielded = <<<<0, 0>>, <<1, 1>>>>
    /\ alm.sequence = 1

\* compute( ack ) was called on an unacknowledged alarm with a number above
\* the sequence number of its unacked pair.
ack_given ==
    /\ computing
    /\ ~acknowledged(agen.before)
    /\ agen.arg # None
    /\ agen.arg > agen.before.unacked[1]

\* compute( ack ) was called on an unacknowledged alarm with None, or with a
\* number not above the sequence number of its unacked pair.
ack_withheld ==
    /\ computing
    /\ ~acknowledged(agen.before)
    /\ (agen.arg = None \/ agen.arg <= agen.before.unacked[1])

\* C32: an unacknowledged alarm becomes acknowledged only by the first pull of
\* a compute() given a number above the sequence number of its unacked pair,
\* or by an ack() of such a number; a compute() given None or a lower number
\* yields no transition and leaves it unacknowledged, whatever its severity;
\* one given a number above yields exactly one transition, to acknowledged.
C32_Acknowledgement ==
    /\ [](ack_withheld => ayielded = <<>> /\ ~acknowledged(alm))
    /\ [](ack_given /\ agen.pc # "start" =>
            /\ ayielded = <<<<0, agen.before.sequence + 1>>>>
            /\ acknowledged(alm))
    /\ [](ack_given /\ agen.pc = "start" => ENABLED AlarmPull)
    /\ [][~acknowledged(alm) /\ acknowledged(alm') =>
            \/ /\ agen.pc = "start" /\ ack_given
               /\ transition_step
            \/ /\ aidle /\ aidle'
               /\ alm'.sequence = alm.sequence
               /\ \E seq \in AckNumbers \ {None} :
                     seq > alm.unacked[1] /\ alm' = ack(alm, seq).alarm]_vars

\* An alarm whose severity dropped while it was unacknowledged was given the
\* number of its latest transition, and is acknowledged.
C32_Witness ==
    /\ agen.pc = "done"
    /\ ack_given
    /\ agen.arg = agen.before.sequence
    /\ agen.before.severity + 1 < agen.before.unacked[2]
    /\ Len(ayielded) = 1
    /\ acknowledged(alm)

\* C33: a match is priced within the limits of the two orders it matches: at
\* no more than the price of the buy order if that is a limit order, and at no
\* less than the price of the sell order if that is a limit order; both Trades
\* of the match carry that price.
C33_LimitsRespected ==
    matched =>
        /\ limit(gen.bought) => gen.price <= gen.bought.price
        /\ limit(gen.sold) => gen.price >= gen.sold.price
        /\ \A t \in match_trades : t.price = gen.price
        /\ mkt.lastprice = gen.price

\* A market-price buy order entered after a limit sell order was matched with
\* it, at its price.
C33_Witness ==
    /\ gen.pc = "seller"
    /\ ~limit(gen.bought) /\ limit(gen.sold)
    /\ gen.sold.time < gen.bought.time
    /\ gen.bought.amount > 0 /\ gen.sold.amount < 0
    /\ yielded[Len(yielded)].price = gen.sold.price
    /\ yielded[Len(yielded) - 1].price = gen.sold.price

\* No order of the book is a limit order.
unpriced(book) == \A i \in 1 .. Len(book) : ~limit(book[i])

\* A market with no match to make: a book is empty, or limit orders are on top
\* of both with the ask above the bid, or neither book has a limit order.
quiescent(m) ==
    \/ m.buying = <<>>
    \/ m.selling = <<>>
    \/ /\ limit(top_buy(m)) /\ limit(top_sell(m))
       /\ top_sell(m).price > top_buy(m).price
    \/ unpriced(m.buying) /\ unpriced(m.selling)

\* C34: a market whose execute was pulled to exhaustion is quiescent; and an
\* execute called on a quiescent market yields no Trade and changes nothing:
\* its first pull ends it.
C34_Quiescence ==
    /\ gen.pc = "done" => quiescent(mkt)
    /\ (running /\ quiescent(gen.before)) =>
          /\ yielded = <<>>
          /\ mkt = gen.before
          /\ ~ENABLED PullBuyer
          /\ gen.pc = "start" => ENABLED PullStop

\* An execute of a market that had made a match ended at its first pull, with
\* limit orders on top of both books, the ask above the bid.
C34_Witness ==
    /\ gen.pc = "done"
    /\ yielded = <<>>
    /\ mkt = gen.before
    /\ mkt.transaction = 1
    /\ mkt.buying # <<>> /\ mkt.selling # <<>>
    /\ limit(top_buy(mkt)) /\ limit(top_sell(mkt))
    /\ top_sell(mkt).price > top_buy(mkt).price

\* The signed sum of the amounts of the orders, or Trades, of an agent.
RECURSIVE owned(_, _)
owned(orders, agent) ==
    IF orders = <<>> THEN 0
    ELSE (IF Head(orders).agent = agent THEN Head(orders).amount ELSE 0)
         + owned(Tail(orders), agent)

\* C35: while a generator of execute is live and both Trades of each match
\* made have been pulled, and once it is exhausted, for every agent the signed
\* sum of the quantities of their orders resting when execute was called is
\* that of their orders resting now plus the signed sum of the amounts of the
\* Trades yielded to them; between the two Trades of a match the seller's is
\* still to come.
C35_OwnerConservation ==
    running =>
        \A agent \in Agents :
            owned(resting_orders(gen.before), agent)
            = owned(resting_orders(mkt), agent) + owned(yielded, agent)
              + (IF gen.pc = "buyer" /\ gen.seller = agent THEN -gen.amount ELSE 0)

\* Two matches between two agents, one of whom has part of an order left.
C35_Witness ==
    /\ gen.pc = "done"
    /\ Len(yielded) = 4
    /\ yielded[1].agent # yielded[2].agent
    /\ owned(yielded, yielded[1].agent) = 2
    /\ owned(resting_orders(mkt), yielded[2].agent) = -1
    /\ owned(resting_orders(gen.before), yielded[2].agent) = -3

\* What an actor holds of a security.
holding(a, security) == IF security \in DOMAIN a.assets THEN a.assets[security] ELSE 0

RECURSIVE total(_, _)
total(amount, agents) ==
    IF agents = {} THEN 0
    ELSE LET agent == CHOOSE agent \in agents : TRUE
         IN  amount[agent] + total(amount, agents \ {agent})

balances(as) == total([agent \in Agents |-> as[agent].balance], Agents)

holdings(as, security) ==
    total([agent \in Agents |-> holding(as[agent], security)], Agents)

\* C36: where every Trade pulled from execute has been recorded by its agent
\* and both Trades of each match have been pulled, the sum of the balances of
\* the actors and the sum of their holdings of the security are what they
\* were; and the latest match has moved its amount of the security from the
\* seller to the buyer and amount * price of balance from the buyer to the
\* seller.
C36_RecordConserves ==
    (running /\ gen.pc # "buyer") =>
        LET now == recorded(actors, yielded)
        IN  /\ balances(now) = balances(actors)
            /\ holdings(now, mkt.name) = holdings(actors, mkt.name)
            /\ (gen.pc = "seller" /\ gen.bought.agent # gen.seller) =>
                  LET was == recorded(actors, SubSeq(yielded, 1, Len(yielded) - 2))
                      buyer == gen.bought.agent
                  IN  /\ holding(now[buyer], mkt.name)
                           = holding(was[buyer], mkt.name) + gen.amount
                      /\ holding(now[gen.seller], mkt.name)
                           = holding(was[gen.seller], mkt.name) - gen.amount
                      /\ now[buyer].balance = was[buyer].balance - gen.amount * gen.price
                      /\ now[gen.seller].balance
                           = was[gen.seller].balance + gen.amount * gen.price

\* Two matches at two prices were recorded: A has bought 2 units of B for 3.
C36_Witness ==
    /\ gen.pc = "done"
    /\ Len(yielded) = 4
    /\ recorded(actors, yielded)["A"] = actor(997, [security \in {"grain"} |-> 2])
    /\ recorded(actors, yielded)["B"] = actor(3, [security \in {"grain"} |-> 98])

\* The resting orders of an agent.
resting_of(m, agent) ==
    {i \in 1 .. Len(resting_orders(m)) : resting_orders(m)[i].agent = agent}

\* C37: in a market where every order is entered with update = True an agent
\* has one resting order at most, so the buy order and the sell order of a
\* match are of two agents, and the two Trades of the match go to two agents.
C37_NoSelfTrade ==
    /\ \A agent \in Agents : Cardinality(resting_of(mkt, agent)) <= 1
    /\ matched => gen.bought.agent # gen.sold.agent
    /\ gen.pc = "seller" =>
          yielded[Len(yielded)].agent # yielded[Len(yielded) - 1].agent

\* An agent who had sold entered a buy order in place of what was left of the
\* sell order, and has bought from the other agent.
C37_Witness ==
    /\ gen.pc = "seller"
    /\ gen.before.transaction = 1
    /\ gen.before.selling # <<>>
    /\ gen.before.lastprice # gen.price
    /\ yielded[1].agent # yielded[2].agent
    /\ mkt.transaction = 2

\* The order on top of each book is a most aggressive one of the book, buy
\* quantities are positive and sell quantities negative.
book_invariants(m) ==
    /\ \A i \in 1 .. Len(m.buying) :
          /\ m.buying[i].amount > 0
          /\ limit(top_buy(m)) =>
                limit(m.buying[i]) /\ m.buying[i].price <= top_buy(m).price
    /\ \A i \in 1 .. Len(m.selling) :
          /\ m.selling[i].amount < 0
          /\ limit(top_sell(m)) =>
                limit(m.selling[i]) /\ m.selling[i].price >= top_sell(m).price

\* C38: with orders entered and closed between the pulls on a generator of
\* execute, the book invariants hold in every state; a pull makes a match if
\* and only if the books as they are at the pull have one to make, and makes
\* it of the two orders then on top; and the seller's Trade pulled after a
\* buyer's Trade has its price, its amount negated, and the agent of the sell
\* order that was matched, whatever was entered or closed in between.
C38_Interleaving ==
    /\ [](book_invariants(mkt))
    /\ [][match_step =>
            /\ ~quiescent(mkt)
            /\ gen'.bought = top_buy(mkt) /\ gen'.sold = top_sell(mkt)
            /\ yielded'[Len(yielded')]
                 = trade(mkt.name, match_price(mkt), gen.now,
                         IF top_buy(mkt).amount < -top_sell(mkt).amount
                         THEN top_buy(mkt).amount ELSE -top_sell(mkt).amount,
                         top_buy(mkt).agent)]_vars
    /\ [][gen.pc \in {"start", "seller"} /\ gen'.pc = "done" => quiescent(mkt)]_vars
    /\ [][gen.pc = "buyer" /\ gen'.pc = "buyer" => gen'.sold = gen.sold]_vars
    /\ [][gen.pc = "buyer" /\ gen'.pc = "seller" =>
            /\ mkt' = mkt
            /\ yielded'[Len(yielded')]
                 = trade(yielded[Len(yielded)].security, yielded[Len(yielded)].price,
                         yielded[Len(yielded)].time, -yielded[Len(yielded)].amount,
                         gen.sold.agent)]_vars

\* The seller's Trade of a second match, of orders entered since the first,
\* was pulled while an order of another agent was on top of the selling book.
C38_Witness ==
    /\ gen.pc = "seller"
    /\ Len(yielded) = 4
    /\ yielded[4].agent = gen.sold.agent
    /\ yielded[4].price = yielded[3].price
    /\ mkt.selling # <<>>
    /\ top_sell(mkt).agent # gen.sold.agent

\* The market of the security is as it was.
kept(security) == xchg'.markets[security] = xchg.markets[security]

\* C39: a step of the exchange changes one market at most: an entry (with the
\* closing of the agent's orders that update = True asks for) changes the market
\* of the security of the order, or makes it and changes none; a pull on
\* execute changes the market it finds its match in; the books, last price and
\* transaction count of every other market stay as they were, and every order
\* rests in the market of its security.
C39_MarketsIndependent ==
    /\ [](\A security \in DOMAIN xchg.markets :
             \A i \in 1 .. Len(resting_orders(xchg.markets[security])) :
                resting_orders(xchg.markets[security])[i].security = security)
    /\ [][/\ \A s1, s2 \in DOMAIN xchg.markets : s1 # s2 => kept(s1) \/ kept(s2)
          /\ DOMAIN xchg'.markets # DOMAIN xchg.markets
                => \A security \in DOMAIN xchg.markets : kept(security)
          /\ xgen'.pc = "buyer" /\ xgen.pc # "buyer"
                => \A security \in DOMAIN xchg.markets \ {xgen'.order[xgen'.at]} :
                      kept(security)
          /\ xgen.pc = "buyer" => xchg' = xchg]_vars

\* Both Trades of a match of the first market were pulled; the next market has
\* a match to make, between orders of the agents of the first, and is as it
\* was when execute was called.
C39_Witness ==
    /\ xgen.pc = "seller"
    /\ Len(xyielded) = 2
    /\ xgen.at = 1
    /\ Len(xgen.order) = 2
    /\ xchg.markets[xgen.order[2]] = xgen.before[xgen.order[2]]
    /\ can_match(xchg.markets[xgen.order[2]])
    /\ xchg.markets[xgen.order[1]] # xgen.before[xgen.order[1]]
    /\ top_buy(xchg.markets[xgen.order[2]]).agent = xyielded[1].agent

====
